---- MODULE Spec2Model ----
(***************************************************************************)
(* Model of runtime/kubernetes/kubernetes.go: the kubernetes runtime       *)
(* adapter (namespace cache, Create/Read/Delete under the adapter lock),   *)
(* the kubeStream returned by Logs, and the getService correlation.        *)
(***************************************************************************)
EXTENDS Integers, Sequences, FiniteSets, TLC

\* ------------------------------------------------------------------------
\* Bounds of the model
\* ------------------------------------------------------------------------
NumCallers == 2
MaxCalls == 2
MaxEnv == 1
NumStoppers == 3
MaxStops == 2
MaxSvc == 2
MaxDep == 2
MaxPod == 2
MaxRecords == 2

Callers == 1..NumCallers
Stoppers == 1..NumStoppers

\* ------------------------------------------------------------------------
\* Values
\* ------------------------------------------------------------------------
Nil == "nil"
ErrInvalidResource == "runtime.ErrInvalidResource"
ErrNotFound == "runtime.ErrNotFound"
ApiErrNotFound == "api.ErrNotFound"
ErrAlreadyExists == "already exists"
ErrUpstream == "upstream"

RawNamespaces == {"default", "Default", "ns1"}
RawNames == {"api", "Api"}
Kinds == {"Namespace", "NetworkPolicy", "Service", "Other"}

\* a secret value is a sequence of bytes; "s" and "pw"
SecretMaps == { {}, {<<"user", <<112, 119>>>>, <<"token", <<115>>>>} }

OwnerLabels == {<<"owner", "micro">>}

\* client.SerializeResourceName: lower-cases the name so that it can be
\* used as a resource name
SerializeResourceName(s) ==
    CASE s = "Default" -> "default"
      [] s = "Api" -> "api"
      [] s = "Api-v1-credentials" -> "api-v1-credentials"
      [] OTHER -> s

\* credentialsName: fmt.Sprintf("%v-%v-credentials", Name, Version), sanitized
credentialsName(name, version) ==
    SerializeResourceName(name \o "-" \o version \o "-credentials")

\* base64.StdEncoding.EncodeToString over a byte sequence; 64 is the pad '='
RECURSIVE EncodeToString(_)
EncodeToString(b) ==
    IF Len(b) = 0 THEN <<>>
    ELSE IF Len(b) = 1 THEN
        << b[1] \div 4, (b[1] % 4) * 16, 64, 64 >>
    ELSE IF Len(b) = 2 THEN
        << b[1] \div 4, (b[1] % 4) * 16 + (b[2] \div 16), (b[2] % 16) * 4, 64 >>
    ELSE
        << b[1] \div 4, (b[1] % 4) * 16 + (b[2] \div 16),
           (b[2] % 16) * 4 + (b[3] \div 64), b[3] % 64 >>
        \o EncodeToString(SubSeq(b, 4, Len(b)))

\* strings.Contains(err.Error(), "already exists")
ContainsAlreadyExists(e) == e = ErrAlreadyExists

RECURSIVE SetToSeq(_)
SetToSeq(S) ==
    IF S = {} THEN <<>>
    ELSE LET x == CHOOSE y \in S : TRUE IN <<x>> \o SetToSeq(S \ {x})

InSeq(s, x) == \E i \in 1..Len(s) : s[i] = x

\* the orders in which the elements of a sequence can be visited
Perms(seq) ==
    { [i \in 1..Len(seq) |-> seq[p[i]]] : p \in Permutations(1..Len(seq)) }

\* ------------------------------------------------------------------------
\* State
\* ------------------------------------------------------------------------
VARIABLES
    lock,        \* kubernetes.RWMutex: 0 when free, else the caller inside Lock()
    namespaces,  \* kubernetes.namespaces: [isNil, items]
    clusterNs,   \* control plane: the namespaces that exist
    policies,    \* control plane: network policies [ns, name, labels]
    secrets,     \* control plane: secrets [ns, name, type, data]
    workloads,   \* control plane: workloads [ns, name, version]
    stack,       \* per caller: the frames of its calls into the adapter
    issued,      \* per caller: the client calls of its current top-level call
    ncalls,      \* top-level calls made so far
    envSteps     \* out-of-band changes made to the control plane

VARIABLES
    running      \* kubernetes.running

VARIABLES
    streamClosed,  \* kubeStream.stream: times close(k.stream) went through
    stopClosed,    \* kubeStream.stop: times close(k.stop) went through
    streamMutex,   \* kubeStream.Mutex: 0 when free, else the goroutine inside
    spc,           \* per goroutine: where it is in kubeStream.Stop
    sret,          \* per goroutine: what its last Stop returned
    sdone,         \* per goroutine: Stop calls that returned
    panicked       \* a goroutine panicked (close of a closed channel)

streamVars == <<streamClosed, stopClosed, streamMutex, spc, sret, sdone, panicked>>

VARIABLES
    serviceList,  \* the Service objects the control plane lists, in list order
    depList,      \* the Deployment objects it lists
    podList,      \* the Pod objects it lists
    svcMap,       \* getService: the LogicalServices by key, once it has run
    queried       \* getService has run on the lists

corrVars == <<serviceList, depList, podList, svcMap, queried>>

adapterVars == <<lock, namespaces, clusterNs, policies, secrets, workloads,
                 stack, issued, ncalls, envSteps>>

Top(c) == stack[c][Len(stack[c])]
SetTop(c, f) == [stack EXCEPT ![c] = [@ EXCEPT ![Len(@)] = f]]
At(c, p) == stack[c] # <<>> /\ Top(c).pc = p

Frame(op, kind, valid, ns, name, version, sec, labels) ==
    [op |-> op, kind |-> kind, valid |-> valid, ns |-> ns, name |-> name,
     version |-> version, secrets |-> sec, labels |-> labels,
     pc |-> "lock", err |-> Nil, acNsErr |-> "none", acRet |-> "none",
     secretErr |-> "none", step |-> 0, todo |-> {}]

Iss(verb, kind, ns, name, res) ==
    [verb |-> verb, kind |-> kind, ns |-> ns, name |-> name, res |-> res]

Log(c, e) == [issued EXCEPT ![c] = Append(@, e)]

\* where Create continues once the namespace is ensured (lines 402-423)
AfterNamespace(f) == IF f.secrets # {} THEN "createCredentials" ELSE "Start"

InitAdapter ==
    /\ lock = 0
    /\ namespaces = [isNil |-> TRUE, items |-> <<>>]
    /\ clusterNs \in { {}, {"default"} }
    /\ policies = {}
    /\ secrets = {}
    /\ workloads = {}
    /\ stack = [c \in Callers |-> <<>>]
    /\ issued = [c \in Callers |-> <<>>]
    /\ ncalls = 0
    /\ envSteps = 0
    /\ running = FALSE

\* ------------------------------------------------------------------------
\* Callers enter the adapter
\* ------------------------------------------------------------------------
\* every method locked
TakesLockAlways(op) == TRUE

\* the methods that start with k.Lock(): Create (339), Read (431),
\* Delete (547), Start (605), Stop (620); Update (472) and Logs (259) do not
TakesLock(op) == op \in {"Create", "Read", "Delete", "Start", "Stop"}

Enter(c, op) ==
    /\ stack[c] = <<>>
    /\ ncalls < MaxCalls
    /\ stack' = [stack EXCEPT ![c] =
          <<[Frame(op, "?", TRUE, "", "", "", {}, {}) EXCEPT
                !.pc = IF TakesLock(op) THEN "lock" ELSE "begin"]>>]
    /\ ncalls' = ncalls + 1
    /\ UNCHANGED <<lock, namespaces, clusterNs, policies, secrets, workloads,
                   issued, envSteps>>

CallCreate(c) == Enter(c, "Create")

CallRead(c) == Enter(c, "Read")

CallDelete(c) == Enter(c, "Delete")

CallUpdate(c) == Enter(c, "Update")

CallLogs(c) == Enter(c, "Logs")

CallStart(c) == Enter(c, "Start")

CallStop(c) == Enter(c, "Stop")

\* the resource and the options a call is made with; they are first looked
\* at after k.Lock()
Inputs(op) ==
    IF op = "Read"
    THEN { Frame("Read", "Service", TRUE, ns, "", "", {}, {}) : ns \in RawNamespaces }
    ELSE IF op \in {"Start", "Stop"}
    THEN { Frame(op, "-", TRUE, "", "", "", {}, {}) }
    ELSE IF op = "Logs"
    THEN { Frame(op, "Other", TRUE, "default", "", "", {}, {}) }
         \cup { Frame(op, kind, valid, "default", "api", "v1", {}, {}) :
                    kind \in Kinds \ {"Other"}, valid \in BOOLEAN }
    ELSE IF op = "Update"
    THEN { Frame(op, "Other", TRUE, "default", "", "", {}, {}) }
         \cup { Frame(op, kind, FALSE, "default", "", "", {}, {}) :
                    kind \in Kinds \ {"Other"} }
         \cup { Frame(op, "Namespace", TRUE, "ns1", "", "", {}, {}) }
         \cup { Frame(op, "NetworkPolicy", TRUE, "default", "custom", "", {}, {}) }
         \cup { Frame(op, "Service", TRUE, "default", name, "v1", {}, {}) :
                    name \in RawNames }
    ELSE { Frame(op, "Other", TRUE, "default", "", "", {}, {}) }
         \cup { Frame(op, kind, FALSE, "default", "", "", {}, {}) :
                    kind \in Kinds \ {"Other"} }
         \cup { Frame(op, "Namespace", TRUE, ns, "", "", {}, {}) : ns \in RawNamespaces }
         \cup { Frame(op, "NetworkPolicy", TRUE, ns, "custom", "", {}, {}) :
                    ns \in RawNamespaces }
         \cup { Frame(op, "Service", TRUE, ns, name, "v1", sec, {}) :
                    ns \in RawNamespaces, name \in RawNames,
                    sec \in IF op = "Create" THEN SecretMaps ELSE { {} } }

\* the existence check keyed on the namespace as the caller wrote it
NeedsNamespaceCheckRaw(ns) == ns # "default"

\* Create, 385-387: namespace := SerializeResourceName(options.Namespace);
\* the existence check runs only if namespace != "default"
NeedsNamespaceCheck(ns) == SerializeResourceName(ns) # "default"

\* the branches that return nil before any downcast: Update of a
\* Namespace (482-484), Logs of a Namespace or a NetworkPolicy (263-268)
NoOp(f) ==
    \/ f.op = "Update" /\ f.kind = "Namespace"
    \/ f.op = "Logs" /\ f.kind \in {"Namespace", "NetworkPolicy"}

\* a type switch that trusts the kind tag and skips the downcast
UnknownKindOnly(f) == f.kind = "Other"

\* the default branch of the type switch, and the failed downcast of the
\* branches that make one (354-357, 361-364, 369-372, 487-490, 495-498,
\* 561-564, 568-571, 576-579, 272-275)
InvalidResource(f) == f.kind = "Other" \/ ~f.valid

\* the type switch of Create (351-426), Read (434-458) and Delete (558-600),
\* up to the first call each branch makes
Dispatch(f) ==
    IF f.op = "Read" THEN [f EXCEPT !.pc = "getService"]
    ELSE IF f.op \in {"Start", "Stop"} THEN [f EXCEPT !.pc = "setRunning"]
    ELSE IF NoOp(f) THEN [f EXCEPT !.pc = "return", !.err = Nil]
    ELSE IF InvalidResource(f)
        THEN [f EXCEPT !.pc = "return", !.err = ErrInvalidResource]
    ELSE IF f.op = "Update" THEN
        CASE f.kind = "NetworkPolicy" -> [f EXCEPT !.pc = "updateNetworkPolicy"]
          [] OTHER -> [f EXCEPT !.pc = "getService"]
    ELSE IF f.op = "Logs" THEN [f EXCEPT !.pc = "logsRead"]
    ELSE IF f.op = "Create" THEN
        CASE f.kind = "Namespace" -> [f EXCEPT !.pc = "createNamespace"]
          [] f.kind = "NetworkPolicy" -> [f EXCEPT !.pc = "createNetworkPolicy"]
          [] OTHER ->
               IF NeedsNamespaceCheck(f.ns)
               THEN [f EXCEPT !.pc = "namespaceExists"]
               ELSE [f EXCEPT !.pc = AfterNamespace(f)]
    ELSE
        CASE f.kind = "Namespace" -> [f EXCEPT !.pc = "deleteNamespace"]
          [] f.kind = "NetworkPolicy" -> [f EXCEPT !.pc = "deleteNetworkPolicy"]
          [] OTHER -> [f EXCEPT !.pc = "deleteCredentials"]

\* a lock that never makes a caller wait
LockNeverWaits == TRUE

\* k.Lock() at the top of Create, Read and Delete
LockFree == lock = 0

Lock(c) ==
    /\ At(c, "lock")
    /\ LockFree
    /\ lock' = c
    /\ IF Top(c).kind = "?"
       THEN \E f \in Inputs(Top(c).op) : stack' = SetTop(c, Dispatch(f))
       ELSE stack' = SetTop(c, Dispatch(Top(c)))
    /\ UNCHANGED <<namespaces, clusterNs, policies, secrets, workloads,
                   issued, ncalls, envSteps>>

\* Update (472-481) and Logs (259-262) go to their type switch unlocked
Begin(c) ==
    /\ At(c, "begin")
    /\ \E f \in Inputs(Top(c).op) : stack' = SetTop(c, Dispatch(f))
    /\ UNCHANGED <<lock, namespaces, clusterNs, policies, secrets, workloads,
                   issued, ncalls, envSteps, running>>

\* Start (604-616) and Stop (619-630) under the lock
setRunning(c) ==
    /\ At(c, "setRunning")
    /\ running' = (Top(c).op = "Start")
    /\ stack' = SetTop(c, [Top(c) EXCEPT !.pc = "return"])
    /\ UNCHANGED <<lock, namespaces, clusterNs, policies, secrets, workloads,
                   issued, ncalls, envSteps>>

\* ------------------------------------------------------------------------
\* Namespace manager
\* ------------------------------------------------------------------------
\* what a successful List leaves in namespaceList.Items: the namespaces of
\* the control plane; a list without items leaves the slice nil or empty
ListItems(S) ==
    IF S = {}
    THEN { [isNil |-> TRUE, items |-> <<>>], [isNil |-> FALSE, items |-> <<>>] }
    ELSE { [isNil |-> FALSE, items |-> SetToSeq(S)] }

\* namespaceExists (34-61) and the branch Create takes on its result (388-400)
namespaceExists(c) ==
    /\ At(c, "namespaceExists")
    /\ LET f == Top(c)
           name == SerializeResourceName(f.ns)
       IN IF namespaces.isNil
          THEN \/ /\ issued' = Log(c, Iss("List", "namespace", "", "", ErrUpstream))
                  /\ stack' = SetTop(c, [f EXCEPT !.pc = "return", !.err = ErrUpstream])
                  /\ UNCHANGED namespaces
               \/ \E l \in ListItems(clusterNs) :
                  /\ issued' = Log(c, Iss("List", "namespace", "", "", Nil))
                  /\ namespaces' = l
                  /\ stack' = SetTop(c, [f EXCEPT !.pc =
                        IF InSeq(l.items, name) THEN AfterNamespace(f)
                        ELSE "autoCreateNamespace"])
          ELSE /\ stack' = SetTop(c, [f EXCEPT !.pc =
                        IF InSeq(namespaces.items, name) THEN AfterNamespace(f)
                        ELSE "autoCreateNamespace"])
               /\ UNCHANGED <<issued, namespaces>>
    /\ UNCHANGED <<lock, clusterNs, policies, secrets, workloads, ncalls, envSteps>>

\* every error of the namespace create surfaced
KeepAlreadyExists(err) == err

\* autoCreateNamespace, 68-72: ignore err already exists
IgnoreAlreadyExists(err) == IF ContainsAlreadyExists(err) THEN Nil ELSE err

\* autoCreateNamespace, 75: add to the cache and create the policy only
\* when the create succeeded and the cache is populated
CachePopulated == ~namespaces.isNil

\* the cache rebuilt from the created namespace alone
ResetToCreated(items, name) == <<name>>

\* autoCreateNamespace, 76: k.namespaces = append(k.namespaces, ns)
AddToCache(items, name) == Append(items, name)

\* autoCreateNamespace (64-86) up to its call of k.Create (81), and the
\* branch Create takes when it returns without that call (389-394)
autoCreateNamespace(c) ==
    /\ At(c, "autoCreateNamespace")
    /\ LET f == Top(c)
           name == SerializeResourceName(f.ns)
       IN \E res \in {Nil, ErrAlreadyExists, ErrUpstream} :
          /\ res = Nil => name \notin clusterNs
          /\ res = ErrAlreadyExists => name \in clusterNs
          /\ clusterNs' = IF res = Nil THEN clusterNs \cup {name} ELSE clusterNs
          /\ issued' = Log(c, Iss("Create", "namespace", name, name, res))
          /\ LET err == IgnoreAlreadyExists(res)
             IN IF err = Nil /\ CachePopulated
                THEN /\ namespaces' = [namespaces EXCEPT !.items = AddToCache(@, name)]
                     /\ stack' = [stack EXCEPT ![c] =
                          Append([@ EXCEPT ![Len(@)] =
                                    [f EXCEPT !.pc = "autoCreateReturn", !.acNsErr = res]],
                                 Frame("Create", "NetworkPolicy", TRUE, name,
                                       "ingress", "", {}, OwnerLabels))]
                ELSE /\ UNCHANGED namespaces
                     /\ stack' = SetTop(c,
                          [f EXCEPT !.acNsErr = res, !.acRet = err, !.err = err,
                                    !.pc = IF err # Nil THEN "return"
                                           ELSE AfterNamespace(f)])
    /\ UNCHANGED <<lock, policies, secrets, workloads, ncalls, envSteps>>

\* createNamespace: one namespace create on the control plane
createNamespace(c) ==
    /\ At(c, "createNamespace")
    /\ LET f == Top(c)
           name == SerializeResourceName(f.ns)
       IN \E res \in {Nil, ErrAlreadyExists, ErrUpstream} :
          /\ res = Nil => name \notin clusterNs
          /\ res = ErrAlreadyExists => name \in clusterNs
          /\ clusterNs' = IF res = Nil THEN clusterNs \cup {name} ELSE clusterNs
          /\ issued' = Log(c, Iss("Create", "namespace", name, name, res))
          /\ stack' = SetTop(c, [f EXCEPT !.pc = "return", !.err = res])
    /\ UNCHANGED <<lock, namespaces, policies, secrets, workloads, ncalls, envSteps>>

\* createNetworkPolicy: one network policy create on the control plane
createNetworkPolicy(c) ==
    /\ At(c, "createNetworkPolicy")
    /\ LET f == Top(c)
           ns == SerializeResourceName(f.ns)
           exists == \E p \in policies : p.ns = ns /\ p.name = f.name
       IN \E res \in {Nil, ErrAlreadyExists, ErrUpstream} :
          /\ res = Nil => (ns \in clusterNs /\ ~exists)
          /\ res = ErrAlreadyExists => exists
          /\ policies' = IF res = Nil
                THEN policies \cup {[ns |-> ns, name |-> f.name, labels |-> f.labels]}
                ELSE policies
          /\ issued' = Log(c, Iss("Create", "networkpolicy", ns, f.name, res))
          /\ stack' = SetTop(c, [f EXCEPT !.pc = "return", !.err = res])
    /\ UNCHANGED <<lock, namespaces, clusterNs, secrets, workloads, ncalls, envSteps>>

\* ------------------------------------------------------------------------
\* Create of a Service: credentials and workload
\* ------------------------------------------------------------------------
\* the values stored as supplied
SecretDataPlain(sec) == sec

\* createCredentials, 672-675: every value base64-encoded
SecretData(sec) == { <<kv[1], EncodeToString(kv[2])>> : kv \in sec }

\* createCredentials (671-692) and the branch of Create on its result (406-417)
createCredentials(c) ==
    /\ At(c, "createCredentials")
    /\ LET f == Top(c)
           ns == SerializeResourceName(f.ns)
           name == credentialsName(f.name, f.version)
           exists == \E s \in secrets : s.ns = ns /\ s.name = name
       IN \E res \in {Nil, ErrAlreadyExists, ErrUpstream} :
          /\ res = Nil => (ns \in clusterNs /\ ~exists)
          /\ res = ErrAlreadyExists => exists
          /\ secrets' = IF res = Nil
                THEN secrets \cup {[ns |-> ns, name |-> name, type |-> "Opaque",
                                    data |-> SecretData(f.secrets)]}
                ELSE secrets
          /\ issued' = Log(c, Iss("Create", "secret", ns, name, res))
          /\ stack' = SetTop(c, [f EXCEPT !.err = res,
                                  !.pc = IF res # Nil THEN "return" ELSE "Start"])
    /\ UNCHANGED <<lock, namespaces, clusterNs, policies, workloads, ncalls, envSteps>>

\* newService and service.Start (419-423): the workload create
Start(c) ==
    /\ At(c, "Start")
    /\ LET f == Top(c)
           ns == SerializeResourceName(f.ns)
           name == SerializeResourceName(f.name)
           w == [ns |-> ns, name |-> name, version |-> f.version]
       IN \E res \in {Nil, ErrAlreadyExists, ErrUpstream} :
          /\ res = Nil => (ns \in clusterNs /\ w \notin workloads)
          /\ res = ErrAlreadyExists => w \in workloads
          /\ workloads' = IF res = Nil THEN workloads \cup {w} ELSE workloads
          /\ issued' = Log(c, Iss("Create", "workload", ns, name, res))
          /\ stack' = SetTop(c, [f EXCEPT !.err = res, !.pc = "return"])
    /\ UNCHANGED <<lock, namespaces, clusterNs, policies, secrets, ncalls, envSteps>>

\* ------------------------------------------------------------------------
\* Read
\* ------------------------------------------------------------------------
GetKinds == <<"service", "deployment", "pod">>

\* Update, 500-511: the workloads the name and version labels select
Matching(f) ==
    { w \in workloads : /\ w.ns = SerializeResourceName(f.ns)
                        /\ w.name = SerializeResourceName(f.name)
                        /\ w.version = f.version }

\* getService, 91-123: the three Get calls Read makes under the lock; the
\* first that fails ends the call with its error (459-461)
getServiceGet(c) ==
    /\ At(c, "getService")
    /\ LET f == Top(c)
           ns == SerializeResourceName(f.ns)
           k == GetKinds[f.step + 1]
       IN \E res \in {Nil, ErrUpstream} :
          /\ issued' = Log(c, Iss("Get", k, ns, "", res))
          /\ stack' = SetTop(c,
                IF res # Nil THEN [f EXCEPT !.pc = "return", !.err = res]
                ELSE IF f.step = 2
                THEN [f EXCEPT !.step = 3,
                               !.pc = IF f.op = "Update" /\ f.todo # {}
                                      THEN "serviceUpdate" ELSE "return"]
                ELSE IF f.step = 0 /\ f.op = "Update"
                THEN [f EXCEPT !.step = 1, !.todo = Matching(f)]
                ELSE [f EXCEPT !.step = @ + 1])
    /\ UNCHANGED <<lock, namespaces, clusterNs, policies, secrets, workloads,
                   ncalls, envSteps>>

\* ------------------------------------------------------------------------
\* Update and Logs
\* ------------------------------------------------------------------------
\* Update, 516-539: one service.Update per match, the first error returned
serviceUpdate(c) ==
    /\ At(c, "serviceUpdate")
    /\ LET f == Top(c)
       IN \E w \in f.todo : \E res \in {Nil, ApiErrNotFound, ErrUpstream} :
          /\ res = Nil => w \in workloads
          /\ res = ApiErrNotFound => w \notin workloads
          /\ issued' = Log(c, Iss("Update", "workload", w.ns, w.name, res))
          /\ stack' = SetTop(c,
                IF res # Nil THEN [f EXCEPT !.pc = "return", !.err = res]
                ELSE [f EXCEPT !.todo = @ \ {w},
                               !.pc = IF f.todo = {w} THEN "return"
                                      ELSE "serviceUpdate"])
    /\ UNCHANGED <<lock, namespaces, clusterNs, policies, secrets, workloads,
                   ncalls, envSteps, running>>

\* updateNetworkPolicy: one network policy update on the control plane
updateNetworkPolicy(c) ==
    /\ At(c, "updateNetworkPolicy")
    /\ LET f == Top(c)
           ns == SerializeResourceName(f.ns)
           found == { p \in policies : p.ns = ns /\ p.name = f.name }
       IN \E res \in {Nil, ApiErrNotFound, ErrUpstream} :
          /\ res = Nil => found # {}
          /\ res = ApiErrNotFound => found = {}
          /\ issued' = Log(c, Iss("Update", "networkpolicy", ns, f.name, res))
          /\ stack' = SetTop(c, [f EXCEPT !.pc = "return", !.err = res])
    /\ UNCHANGED <<lock, namespaces, clusterNs, policies, secrets, workloads,
                   ncalls, envSteps, running>>

\* Logs, 277-301: the read of the history (or the opening of the live
\* stream); its error is returned, otherwise the stream is
logsRead(c) ==
    /\ At(c, "logsRead")
    /\ LET f == Top(c)
       IN \E res \in {Nil, ErrUpstream} :
          /\ issued' = Log(c, Iss("Get", "logs", "", f.name, res))
          /\ stack' = SetTop(c, [f EXCEPT !.pc = "return", !.err = res])
    /\ UNCHANGED <<lock, namespaces, clusterNs, policies, secrets, workloads,
                   ncalls, envSteps, running>>

\* ------------------------------------------------------------------------
\* Delete
\* ------------------------------------------------------------------------
\* what the namespace takes with it when it is deleted
InNs(S, ns) == { x \in S : x.ns = ns }

\* deleteNamespace: one namespace delete on the control plane
deleteNamespace(c) ==
    /\ At(c, "deleteNamespace")
    /\ LET f == Top(c)
           name == SerializeResourceName(f.ns)
       IN \E res \in {Nil, ApiErrNotFound, ErrUpstream} :
          /\ res = Nil => name \in clusterNs
          /\ res = ApiErrNotFound => name \notin clusterNs
          /\ IF res = Nil
             THEN /\ clusterNs' = clusterNs \ {name}
                  /\ policies' = policies \ InNs(policies, name)
                  /\ secrets' = secrets \ InNs(secrets, name)
                  /\ workloads' = workloads \ InNs(workloads, name)
             ELSE UNCHANGED <<clusterNs, policies, secrets, workloads>>
          /\ issued' = Log(c, Iss("Delete", "namespace", name, name, res))
          /\ stack' = SetTop(c, [f EXCEPT !.pc = "return", !.err = res])
    /\ UNCHANGED <<lock, namespaces, ncalls, envSteps>>

\* deleteNetworkPolicy: one network policy delete on the control plane
deleteNetworkPolicy(c) ==
    /\ At(c, "deleteNetworkPolicy")
    /\ LET f == Top(c)
           ns == SerializeResourceName(f.ns)
           found == { p \in policies : p.ns = ns /\ p.name = f.name }
       IN \E res \in {Nil, ApiErrNotFound, ErrUpstream} :
          /\ res = Nil => found # {}
          /\ res = ApiErrNotFound => found = {}
          /\ policies' = IF res = Nil THEN policies \ found ELSE policies
          /\ issued' = Log(c, Iss("Delete", "networkpolicy", ns, f.name, res))
          /\ stack' = SetTop(c, [f EXCEPT !.pc = "return", !.err = res])
    /\ UNCHANGED <<lock, namespaces, clusterNs, secrets, workloads, ncalls, envSteps>>

\* Delete, 587-589: k.client.Delete of the credentials secret, result dropped
deleteCredentials(c) ==
    /\ At(c, "deleteCredentials")
    /\ LET f == Top(c)
           ns == SerializeResourceName(f.ns)
           name == credentialsName(f.name, f.version)
           found == { s \in secrets : s.ns = ns /\ s.name = name }
       IN \E res \in {Nil, ApiErrNotFound, ErrUpstream} :
          /\ res = Nil => found # {}
          /\ res = ApiErrNotFound => found = {}
          /\ secrets' = IF res = Nil THEN secrets \ found ELSE secrets
          /\ issued' = Log(c, Iss("Delete", "secret", ns, name, res))
          /\ stack' = SetTop(c, [f EXCEPT !.pc = "Stop", !.secretErr = res])
    /\ UNCHANGED <<lock, namespaces, clusterNs, policies, workloads, ncalls, envSteps>>

\* the error of the secret delete surfaced
DeleteResultWithSecret(secretErr, stopErr) ==
    IF secretErr \notin {Nil, "none"} THEN secretErr
    ELSE IF stopErr = ApiErrNotFound THEN ErrNotFound
    ELSE IF stopErr # Nil THEN stopErr
    ELSE Nil

\* Delete, 591-597: the result of Delete from the results of the secret
\* delete and of service.Stop
DeleteResult(secretErr, stopErr) ==
    IF stopErr = ApiErrNotFound THEN ErrNotFound
    ELSE IF stopErr # Nil THEN stopErr
    ELSE Nil

\* service.Stop (591) and the mapping of its error
Stop(c) ==
    /\ At(c, "Stop")
    /\ LET f == Top(c)
           ns == SerializeResourceName(f.ns)
           name == SerializeResourceName(f.name)
           w == [ns |-> ns, name |-> name, version |-> f.version]
       IN \E res \in {Nil, ApiErrNotFound, ErrUpstream} :
          /\ res = Nil => w \in workloads
          /\ res = ApiErrNotFound => w \notin workloads
          /\ workloads' = IF res = Nil THEN workloads \ {w} ELSE workloads
          /\ issued' = Log(c, Iss("Delete", "workload", ns, name, res))
          /\ stack' = SetTop(c, [f EXCEPT !.pc = "return",
                                  !.err = DeleteResult(f.secretErr, res)])
    /\ UNCHANGED <<lock, namespaces, clusterNs, policies, secrets, ncalls, envSteps>>

\* ------------------------------------------------------------------------
\* Return
\* ------------------------------------------------------------------------
\* defer k.Unlock() and the return of Create, Read or Delete; a Create
\* called by autoCreateNamespace (81) hands its result to autoCreateNamespace,
\* which returns it to Create (389-394)
Return(c) ==
    /\ At(c, "return")
    /\ lock' = IF TakesLock(Top(c).op) THEN 0 ELSE lock
    /\ LET f == Top(c)
           n == Len(stack[c])
       IN IF n = 1
          THEN /\ stack' = [stack EXCEPT ![c] = <<>>]
               /\ issued' = [issued EXCEPT ![c] = <<>>]
          ELSE /\ stack' = [stack EXCEPT ![c] =
                    [SubSeq(@, 1, n - 1) EXCEPT ![n - 1] =
                        [@ EXCEPT !.acRet = f.err, !.err = f.err,
                                  !.pc = IF f.err # Nil THEN "return"
                                         ELSE AfterNamespace(@)]]]
               /\ UNCHANGED issued
    /\ UNCHANGED <<namespaces, clusterNs, policies, secrets, workloads,
                   ncalls, envSteps>>

\* ------------------------------------------------------------------------
\* The control plane changes out of band
\* ------------------------------------------------------------------------
EnvCreateNamespace ==
    /\ envSteps < MaxEnv
    /\ \E name \in {"default", "ns1"} \ clusterNs :
          clusterNs' = clusterNs \cup {name}
    /\ envSteps' = envSteps + 1
    /\ UNCHANGED <<lock, namespaces, policies, secrets, workloads,
                   stack, issued, ncalls>>

EnvDeleteNamespace ==
    /\ envSteps < MaxEnv
    /\ \E name \in clusterNs \ {"default"} :
          /\ clusterNs' = clusterNs \ {name}
          /\ policies' = policies \ InNs(policies, name)
          /\ secrets' = secrets \ InNs(secrets, name)
          /\ workloads' = workloads \ InNs(workloads, name)
    /\ envSteps' = envSteps + 1
    /\ UNCHANGED <<lock, namespaces, stack, issued, ncalls>>

\* ------------------------------------------------------------------------
\* kubeStream
\* ------------------------------------------------------------------------
InitStream ==
    /\ streamClosed = 0
    /\ stopClosed = 0
    /\ streamMutex = 0
    /\ spc = [s \in Stoppers |-> "idle"]
    /\ sret = [s \in Stoppers |-> "none"]
    /\ sdone = [s \in Stoppers |-> 0]
    /\ panicked = FALSE

\* a goroutine calls Stop on the stream
StopCall(s) ==
    /\ ~panicked
    /\ spc[s] = "idle"
    /\ sdone[s] < MaxStops
    /\ spc' = [spc EXCEPT ![s] = "Lock"]
    /\ sret' = [sret EXCEPT ![s] = "none"]
    /\ UNCHANGED <<streamClosed, stopClosed, streamMutex, sdone, panicked>>

\* Stop, 325: k.Lock()
StopLock(s) ==
    /\ ~panicked
    /\ spc[s] = "Lock"
    /\ streamMutex = 0
    /\ streamMutex' = s
    /\ spc' = [spc EXCEPT ![s] = "select"]
    /\ UNCHANGED <<streamClosed, stopClosed, sret, sdone, panicked>>

\* a select that never finds the stop channel closed
StopChanNeverReady == FALSE

\* Stop, 328: case <-k.stop is ready once the stop channel is closed
StopChanReady == stopClosed > 0

\* Stop, 327-333: the select on the stop channel
StopSelect(s) ==
    /\ ~panicked
    /\ spc[s] = "select"
    /\ IF StopChanReady
       THEN /\ spc' = [spc EXCEPT ![s] = "Unlock"]
            /\ sret' = [sret EXCEPT ![s] = Nil]
       ELSE /\ spc' = [spc EXCEPT ![s] = "closeStop"]
            /\ UNCHANGED sret
    /\ UNCHANGED <<streamClosed, stopClosed, streamMutex, sdone, panicked>>

\* Stop, 331: close(k.stop); closing a closed channel panics
StopCloseStop(s) ==
    /\ ~panicked
    /\ spc[s] = "closeStop"
    /\ IF stopClosed > 0
       THEN /\ panicked' = TRUE
            /\ UNCHANGED <<stopClosed, spc>>
       ELSE /\ stopClosed' = stopClosed + 1
            /\ spc' = [spc EXCEPT ![s] = "closeStream"]
            /\ UNCHANGED panicked
    /\ UNCHANGED <<streamClosed, streamMutex, sret, sdone>>

\* Stop, 332-334: close(k.stream) and return nil
StopCloseStream(s) ==
    /\ ~panicked
    /\ spc[s] = "closeStream"
    /\ IF streamClosed > 0
       THEN /\ panicked' = TRUE
            /\ UNCHANGED <<streamClosed, spc, sret>>
       ELSE /\ streamClosed' = streamClosed + 1
            /\ spc' = [spc EXCEPT ![s] = "Unlock"]
            /\ sret' = [sret EXCEPT ![s] = Nil]
            /\ UNCHANGED panicked
    /\ UNCHANGED <<stopClosed, streamMutex, sdone>>

\* Stop, 326: defer k.Unlock(), and the return
StopUnlock(s) ==
    /\ ~panicked
    /\ spc[s] = "Unlock"
    /\ streamMutex' = 0
    /\ spc' = [spc EXCEPT ![s] = "idle"]
    /\ sdone' = [sdone EXCEPT ![s] = @ + 1]
    /\ UNCHANGED <<streamClosed, stopClosed, sret, panicked>>

\* ------------------------------------------------------------------------
\* Logs without the Stream option: the worker and the consumer of the stream
\* ------------------------------------------------------------------------
VARIABLES
    lpc,          \* position of the Logs call
    lerr,         \* the error Logs returned
    records,      \* what klo.Read() returned
    wpc,          \* position of the worker goroutine
    widx,         \* the record the worker's range loop stands at
    received,     \* what the consumer received from Chan()
    eos,          \* the consumer has seen the record channel closed
    sendOnClosed  \* the worker sent on the closed record channel

logVars == <<lpc, lerr, records, wpc, widx, received, eos, sendOnClosed>>

\* the goroutines that call Stop on the stream returned by Logs
Worker == 1
Consumer == 2

\* the histories klo.Read() can return
Histories == { [i \in 1..n |-> i] : n \in 0..MaxRecords }

InitLogs ==
    /\ lpc = "idle"
    /\ lerr = "none"
    /\ records = <<>>
    /\ wpc = "none"
    /\ widx = 1
    /\ received = <<>>
    /\ eos = FALSE
    /\ sendOnClosed = FALSE

\* Logs, 259-277: a Service resource, no Stream option
LogsCall ==
    /\ lpc = "idle"
    /\ lpc' = "Read"
    /\ UNCHANGED <<lerr, records, wpc, widx, received, eos, sendOnClosed>>
    /\ UNCHANGED streamVars

\* Logs, 280-284: records, err := klo.Read(); the error is returned
LogsRead ==
    /\ lpc = "Read"
    /\ \/ /\ lerr' = ErrUpstream
          /\ lpc' = "returned"
          /\ UNCHANGED records
       \/ \E rs \in Histories :
          /\ records' = rs
          /\ lpc' = "go"
          /\ UNCHANGED lerr
    /\ UNCHANGED <<wpc, widx, received, eos, sendOnClosed>>
    /\ UNCHANGED streamVars

\* Logs, 285-295: the stream is made, the worker started, the stream returned
LogsGo ==
    /\ lpc = "go"
    /\ lpc' = "returned"
    /\ lerr' = Nil
    /\ wpc' = "range"
    /\ UNCHANGED <<records, widx, received, eos, sendOnClosed>>
    /\ UNCHANGED streamVars

\* a range loop that skips every other record
AfterSendSkipping(i) == i + 2

\* worker, 290: the range loop goes on to the next record
AfterSend(i) == i + 1

\* the consumer holds the stream and has not called Stop
ConsumerReceives ==
    /\ lpc = "returned" /\ lerr = Nil
    /\ spc[Consumer] = "idle" /\ sdone[Consumer] = 0

\* worker, 290-292: kstream.Chan() <- record on the unbuffered channel: a
\* rendezvous with the receiving consumer, a panic once the channel is closed
WorkerSend ==
    /\ ~panicked
    /\ wpc = "range"
    /\ widx <= Len(records)
    /\ IF streamClosed > 0
       THEN /\ sendOnClosed' = TRUE
            /\ panicked' = TRUE
            /\ UNCHANGED <<widx, received>>
       ELSE /\ ConsumerReceives
            /\ received' = Append(received, records[widx])
            /\ widx' = AfterSend(widx)
            /\ UNCHANGED <<sendOnClosed, panicked>>
    /\ UNCHANGED <<lpc, lerr, records, wpc, eos>>
    /\ UNCHANGED <<streamClosed, stopClosed, streamMutex, spc, sret, sdone>>

\* worker, 293: the loop is over and the worker calls kstream.Stop()
WorkerStop ==
    /\ wpc = "range"
    /\ widx > Len(records)
    /\ StopCall(Worker)
    /\ wpc' = "Stop"
    /\ UNCHANGED <<lpc, lerr, records, widx, received, eos, sendOnClosed>>

\* worker, 294: Stop returned and the goroutine ends
WorkerEnd ==
    /\ wpc = "Stop"
    /\ spc[Worker] = "idle" /\ sdone[Worker] > 0
    /\ wpc' = "done"
    /\ UNCHANGED <<lpc, lerr, records, widx, received, eos, sendOnClosed>>
    /\ UNCHANGED streamVars

\* the consumer calls Stop on the stream it was given, at any moment
ConsumerStop ==
    /\ lpc = "returned" /\ lerr = Nil
    /\ StopCall(Consumer)
    /\ UNCHANGED logVars

\* the consumer's receive on the closed record channel: end of stream
ConsumerSeesClose ==
    /\ ~panicked
    /\ ConsumerReceives
    /\ streamClosed > 0
    /\ ~eos
    /\ eos' = TRUE
    /\ UNCHANGED <<lpc, lerr, records, wpc, widx, received, sendOnClosed>>
    /\ UNCHANGED streamVars

\* the steps of a Stop in progress, of the worker or of the consumer
StopStep ==
    \E s \in {Worker, Consumer} :
        \/ StopLock(s) \/ StopSelect(s) \/ StopCloseStop(s)
        \/ StopCloseStream(s) \/ StopUnlock(s)

\* ------------------------------------------------------------------------
\* Service correlator
\* ------------------------------------------------------------------------
\* runtime.ServiceStatus
Unknown == "Unknown"
Starting == "Starting"
Running == "Running"
Stopped == "Stopped"
Error == "Error"

\* strings.ToLower on the tokens the control plane reports
ToLower(s) ==
    CASE s = "Pending" -> "pending"
      [] s = "ContainerCreating" -> "containercreating"
      [] s = "ImagePullBackOff" -> "imagepullbackoff"
      [] s = "CrashLoopBackOff" -> "crashloopbackoff"
      [] s = "Error" -> "error"
      [] s = "Running" -> "running"
      [] s = "Available" -> "available"
      [] s = "Succeeded" -> "succeeded"
      [] s = "Failed" -> "failed"
      [] s = "Waiting" -> "waiting"
      [] s = "Terminated" -> "terminated"
      [] s = "Progressing" -> "progressing"
      [] OTHER -> s

\* transformStatus, 701-727
transformStatus(depStatus) ==
    LET l == ToLower(depStatus)
    IN CASE l = "pending" -> Starting
         [] l = "containercreating" -> Starting
         [] l = "imagepullbackoff" -> Error
         [] l = "crashloopbackoff" -> Error
         [] l = "error" -> Error
         [] l = "running" -> Running
         [] l = "available" -> Running
         [] l = "succeeded" -> Stopped
         [] l = "failed" -> Error
         [] l = "waiting" -> Starting
         [] l = "terminated" -> Stopped
         [] OTHER -> Unknown

\* the label pairs, deployments and pods the control plane may hold
SvcLabels == { <<"a", "bc">>, <<"ab", "c">>, <<"a", "c">> }
WorkLabels == { <<"a", "bc">>, <<"ab", "c">>, <<"a", "c">> }

NativeServices == { [name |-> l[1], version |-> l[2]] : l \in SvcLabels }

ManagedAnnotations(l) ==
    { <<"name", l[1]>>, <<"version", l[2]>>, <<"source", "src">> }

NativeDeployments ==
    { [name |-> l[1], version |-> l[2], annotations |-> {}, conditions |-> <<>>] :
          l \in WorkLabels }
    \cup { [name |-> l[1], version |-> l[2], annotations |-> ManagedAnnotations(l),
            conditions |-> cs] : l \in WorkLabels, cs \in { <<>>, <<"Available">> } }

NativePods ==
    { [name |-> l[1], version |-> l[2], phase |-> pc[1], containers |-> pc[2]] :
          l \in WorkLabels,
          pc \in { <<"Running", <<"running">>>>, <<"Pending", <<"waiting">>>>,
                   <<"Running", <<>>>> } }

HasAnnotation(anns, k) == \E a \in anns : a[1] = k
Annotation(anns, k) ==
    IF HasAnnotation(anns, k) THEN (CHOOSE a \in anns : a[1] = k)[2] ELSE ""

\* getService, 157 and 168: the key of svcMap
Key(name, version) == name \o version

\* getService, 128-158: one LogicalService per key, the last listed wins
RECURSIVE CollectServices(_, _, _)
CollectServices(items, i, m) ==
    IF i > Len(items) THEN m
    ELSE LET name == items[i].name
             version == items[i].version
             srv == [name |-> name, version |-> version, source |-> "",
                     status |-> Unknown, kservice |-> i, kdeploy |-> 0]
         IN CollectServices(items, i + 1,
                (Key(name, version) :> srv) @@ m)

\* getService, 199-230: the pods of the list, in order, each matching pod
\* with a container status setting the status
RECURSIVE RealStatus(_, _, _, _, _)
RealStatus(pods, j, name, version, status) ==
    IF j > Len(pods) THEN status
    ELSE LET item == pods[j]
         IN IF item.name # name \/ item.version # version
            THEN RealStatus(pods, j + 1, name, version, status)
            ELSE IF Len(item.containers) = 0
            THEN RealStatus(pods, j + 1, name, version, status)
            ELSE RealStatus(pods, j + 1, name, version,
                    IF item.containers[1] = "waiting" THEN Starting
                    ELSE transformStatus(item.phase))

\* getService, 160-235: the deployments of the list, in order
RECURSIVE CollectDeployments(_, _, _, _)
CollectDeployments(deps, pods, i, m) ==
    IF i > Len(deps) THEN m
    ELSE LET kdep == deps[i]
             key == Key(kdep.name, kdep.version)
         IN IF key \notin DOMAIN m
            THEN CollectDeployments(deps, pods, i + 1, m)
            ELSE IF ~HasAnnotation(kdep.annotations, "name")
            THEN CollectDeployments(deps, pods, i + 1, m)
            ELSE LET depStatus ==
                        IF Len(kdep.conditions) > 0
                        THEN transformStatus(kdep.conditions[1])
                        ELSE Unknown
                     svc == [m[key] EXCEPT
                               !.name = Annotation(kdep.annotations, "name"),
                               !.version = Annotation(kdep.annotations, "version"),
                               !.source = Annotation(kdep.annotations, "source"),
                               !.status = RealStatus(pods, 1, kdep.name,
                                                     kdep.version, depStatus),
                               !.kdeploy = i]
                 IN CollectDeployments(deps, pods, i + 1, (key :> svc) @@ m)

\* getService, 125-245, on the three lists its Get calls returned
getService(services, deps, pods) ==
    CollectDeployments(deps, pods, 1, CollectServices(services, 1, <<>>))

InitCorr ==
    /\ serviceList = <<>>
    /\ depList = <<>>
    /\ podList = <<>>
    /\ svcMap = <<>>
    /\ queried = FALSE

\* the control plane gains a Service, a Deployment or a Pod
AddService ==
    /\ ~queried
    /\ Len(serviceList) < MaxSvc
    /\ \E o \in NativeServices : serviceList' = Append(serviceList, o)
    /\ UNCHANGED <<depList, podList, svcMap, queried>>

AddDeployment ==
    /\ ~queried
    /\ Len(depList) < MaxDep
    /\ \E o \in NativeDeployments : depList' = Append(depList, o)
    /\ UNCHANGED <<serviceList, podList, svcMap, queried>>

AddPod ==
    /\ ~queried
    /\ Len(podList) < MaxPod
    /\ \E o \in NativePods : podList' = Append(podList, o)
    /\ UNCHANGED <<serviceList, depList, svcMap, queried>>

\* Read without filters: getService on everything the namespace holds
ReadAll ==
    /\ ~queried
    /\ svcMap' = getService(serviceList, depList, podList)
    /\ queried' = TRUE
    /\ UNCHANGED <<serviceList, depList, podList>>

\* ------------------------------------------------------------------------
\* Update of a Service: correlation, then one push per LogicalService
\* ------------------------------------------------------------------------
VARIABLES
    upc,      \* position of the Update call
    uerr,     \* what Update returned
    ulabels,  \* the labels Update selects by
    utodo,    \* the LogicalServices the range loop has still to visit
    kdeps,    \* the deployment objects in memory after getService
    shared,   \* whether the iterations of "for _, kdep" share one variable
    pushed    \* the sub-updates issued, in order, with their results

updVars == <<upc, uerr, ulabels, utodo, kdeps, shared, pushed>>

InitUpd ==
    /\ upc = "idle"
    /\ uerr = "none"
    /\ ulabels = <<"", "">>
    /\ utodo = <<>>
    /\ kdeps = <<>>
    /\ shared = FALSE
    /\ pushed = <<>>

\* Update, 500-508: the labels built from the name and version of the
\* resource, left out when empty
UpdateLabels == { <<"", "">>, <<"a", "">>, <<"a", "bc">> }

\* getService, 91-123: the Get calls carry the labels as a selector
Select(items, lab) ==
    SelectSeq(items, LAMBDA o : /\ lab[1] # "" => o.name = lab[1]
                                /\ lab[2] # "" => o.version = lab[2])

Provenance == {"name", "version", "source"}

\* getService, 181-183: the three deletes on the annotations of kdep
Stripped(anns) == { a \in anns : a[1] \notin Provenance }

\* getService, 166-183: the deployments in memory once the loop is over; the
\* annotations map of kdep is the map of the listed item, so the deletes
\* are seen through every reference to it
AfterCorrelation(services, deps) ==
    LET m == CollectServices(services, 1, <<>>)
    IN [i \in 1..Len(deps) |->
          IF /\ Key(deps[i].name, deps[i].version) \in DOMAIN m
             /\ HasAnnotation(deps[i].annotations, "name")
          THEN [deps[i] EXCEPT !.annotations = Stripped(@)]
          ELSE deps[i]]

\* getService, 233: svc.kdeploy = &kdep; with one variable per iteration
\* the pointer keeps the deployment of that iteration, with one variable for
\* the whole loop every pointer ends at the last deployment of the list
KDeploy(svc) == IF shared THEN Len(kdeps) ELSE svc.kdeploy

\* the metadata of the resource handed to Update
Incoming == { <<"owner", "ops">> }

\* Update, 526-528: Annotations[k] = v for every incoming pair
Merge(anns, md) ==
    { a \in anns : ~\E b \in md : b[1] = a[1] } \cup md

\* a loop that goes on after a failed sub-update
NeverStops(res) == FALSE

\* Update, 534-536: if err := service.Update(...); err != nil { return err }
StopsAtError(res) == res # Nil

\* Update, 472-514: the labels, then getService; its error is returned
UpdateCorrelate ==
    /\ upc = "idle"
    /\ ~queried
    /\ queried' = TRUE
    /\ \E lab \in UpdateLabels :
         /\ ulabels' = lab
         /\ LET services == Select(serviceList, lab)
             deps == Select(depList, lab)
             pods == Select(podList, lab)
             m == getService(services, deps, pods)
           IN \/ /\ upc' = "returned"
                 /\ uerr' = ErrUpstream
                 /\ UNCHANGED <<svcMap, utodo, kdeps, shared>>
              \/ /\ svcMap' = m
                 /\ kdeps' = AfterCorrelation(services, deps)
                 /\ shared' \in BOOLEAN
                 /\ utodo' \in Perms(SetToSeq(DOMAIN m))
                 /\ upc' = IF DOMAIN m = {} THEN "returned" ELSE "range"
                 /\ uerr' = IF DOMAIN m = {} THEN Nil ELSE "none"
    /\ UNCHANGED <<serviceList, depList, podList, pushed>>

\* Update, 517-537: one turn of the loop over the LogicalServices; a
\* LogicalService without deployment has a nil kdeploy, and line 519 reads
\* through it
UpdatePush ==
    /\ upc = "range"
    /\ LET svc == svcMap[Head(utodo)]
       IN IF svc.kdeploy = 0
          THEN /\ upc' = "crashed"
               /\ UNCHANGED <<uerr, utodo, kdeps, pushed>>
          ELSE LET i == KDeploy(svc)
                   obj == [kdeps[i] EXCEPT !.annotations = Merge(@, Incoming)]
               IN \E res \in {Nil, ErrUpstream} :
                  /\ kdeps' = [kdeps EXCEPT ![i] = obj]
                  /\ pushed' = Append(pushed,
                        [key |-> Head(utodo), listed |-> svc.kdeploy,
                         obj |-> obj, updated |-> TRUE, res |-> res])
                  /\ utodo' = Tail(utodo)
                  /\ IF StopsAtError(res)
                     THEN upc' = "returned" /\ uerr' = res
                     ELSE IF Tail(utodo) = <<>>
                     THEN upc' = "returned" /\ uerr' = Nil
                     ELSE UNCHANGED <<upc, uerr>>
    /\ UNCHANGED <<ulabels, shared, corrVars>>

Init == InitAdapter /\ InitStream /\ InitCorr /\ InitLogs /\ InitUpd

vars == <<adapterVars, running, streamVars, corrVars, logVars, updVars>>

Next ==
    \/ (\E c \in Callers : CallCreate(c)) /\ UNCHANGED <<running, streamVars, corrVars, logVars, updVars>>
    \/ (\E c \in Callers : CallRead(c)) /\ UNCHANGED <<running, streamVars, corrVars, logVars, updVars>>
    \/ (\E c \in Callers : CallDelete(c)) /\ UNCHANGED <<running, streamVars, corrVars, logVars, updVars>>
    \/ (\E c \in Callers : Lock(c)) /\ UNCHANGED <<running, streamVars, corrVars, logVars, updVars>>
    \/ (\E c \in Callers : namespaceExists(c)) /\ UNCHANGED <<running, streamVars, corrVars, logVars, updVars>>
    \/ (\E c \in Callers : autoCreateNamespace(c)) /\ UNCHANGED <<running, streamVars, corrVars, logVars, updVars>>
    \/ (\E c \in Callers : createNamespace(c)) /\ UNCHANGED <<running, streamVars, corrVars, logVars, updVars>>
    \/ (\E c \in Callers : createNetworkPolicy(c)) /\ UNCHANGED <<running, streamVars, corrVars, logVars, updVars>>
    \/ (\E c \in Callers : createCredentials(c)) /\ UNCHANGED <<running, streamVars, corrVars, logVars, updVars>>
    \/ (\E c \in Callers : Start(c)) /\ UNCHANGED <<running, streamVars, corrVars, logVars, updVars>>
    \/ (\E c \in Callers : getServiceGet(c)) /\ UNCHANGED <<running, streamVars, corrVars, logVars, updVars>>
    \/ (\E c \in Callers : deleteNamespace(c)) /\ UNCHANGED <<running, streamVars, corrVars, logVars, updVars>>
    \/ (\E c \in Callers : deleteNetworkPolicy(c)) /\ UNCHANGED <<running, streamVars, corrVars, logVars, updVars>>
    \/ (\E c \in Callers : deleteCredentials(c)) /\ UNCHANGED <<running, streamVars, corrVars, logVars, updVars>>
    \/ (\E c \in Callers : Stop(c)) /\ UNCHANGED <<running, streamVars, corrVars, logVars, updVars>>
    \/ (\E c \in Callers : Return(c)) /\ UNCHANGED <<running, streamVars, corrVars, logVars, updVars>>
    \/ (EnvCreateNamespace) /\ UNCHANGED <<running, streamVars, corrVars, logVars, updVars>>
    \/ (EnvDeleteNamespace) /\ UNCHANGED <<running, streamVars, corrVars, logVars, updVars>>

\* the two goroutines that call all seven methods of the adapter
Goroutines == {1, 2}

\* the adapter with every method: Create, Read, Update, Delete, Logs, Start
\* and Stop, called from two goroutines, and namespaces removed out of band
NextVerbs ==
    \/ (\E c \in Goroutines : CallCreate(c)) /\ UNCHANGED <<running, streamVars, corrVars, logVars, updVars>>
    \/ (\E c \in Goroutines : CallRead(c)) /\ UNCHANGED <<running, streamVars, corrVars, logVars, updVars>>
    \/ (\E c \in Goroutines : CallDelete(c)) /\ UNCHANGED <<running, streamVars, corrVars, logVars, updVars>>
    \/ (\E c \in Goroutines : Lock(c)) /\ UNCHANGED <<running, streamVars, corrVars, logVars, updVars>>
    \/ (\E c \in Goroutines : namespaceExists(c)) /\ UNCHANGED <<running, streamVars, corrVars, logVars, updVars>>
    \/ (\E c \in Goroutines : autoCreateNamespace(c)) /\ UNCHANGED <<running, streamVars, corrVars, logVars, updVars>>
    \/ (\E c \in Goroutines : createNamespace(c)) /\ UNCHANGED <<running, streamVars, corrVars, logVars, updVars>>
    \/ (\E c \in Goroutines : createNetworkPolicy(c)) /\ UNCHANGED <<running, streamVars, corrVars, logVars, updVars>>
    \/ (\E c \in Goroutines : createCredentials(c)) /\ UNCHANGED <<running, streamVars, corrVars, logVars, updVars>>
    \/ (\E c \in Goroutines : Start(c)) /\ UNCHANGED <<running, streamVars, corrVars, logVars, updVars>>
    \/ (\E c \in Goroutines : getServiceGet(c)) /\ UNCHANGED <<running, streamVars, corrVars, logVars, updVars>>
    \/ (\E c \in Goroutines : deleteNamespace(c)) /\ UNCHANGED <<running, streamVars, corrVars, logVars, updVars>>
    \/ (\E c \in Goroutines : deleteNetworkPolicy(c)) /\ UNCHANGED <<running, streamVars, corrVars, logVars, updVars>>
    \/ (\E c \in Goroutines : deleteCredentials(c)) /\ UNCHANGED <<running, streamVars, corrVars, logVars, updVars>>
    \/ (\E c \in Goroutines : Stop(c)) /\ UNCHANGED <<running, streamVars, corrVars, logVars, updVars>>
    \/ (\E c \in Goroutines : Return(c)) /\ UNCHANGED <<running, streamVars, corrVars, logVars, updVars>>
    \/ (EnvDeleteNamespace) /\ UNCHANGED <<running, streamVars, corrVars, logVars, updVars>>
    \/ (\E c \in Goroutines : CallUpdate(c)) /\ UNCHANGED <<running, streamVars, corrVars, logVars, updVars>>
    \/ (\E c \in Goroutines : CallLogs(c)) /\ UNCHANGED <<running, streamVars, corrVars, logVars, updVars>>
    \/ (\E c \in Goroutines : CallStart(c)) /\ UNCHANGED <<running, streamVars, corrVars, logVars, updVars>>
    \/ (\E c \in Goroutines : CallStop(c)) /\ UNCHANGED <<running, streamVars, corrVars, logVars, updVars>>
    \/ (\E c \in Goroutines : Begin(c)) /\ UNCHANGED <<streamVars, corrVars, logVars, updVars>>
    \/ (\E c \in Goroutines : setRunning(c)) /\ UNCHANGED <<streamVars, corrVars, logVars, updVars>>
    \/ (\E c \in Goroutines : serviceUpdate(c)) /\ UNCHANGED <<streamVars, corrVars, logVars, updVars>>
    \/ (\E c \in Goroutines : updateNetworkPolicy(c)) /\ UNCHANGED <<streamVars, corrVars, logVars, updVars>>
    \/ (\E c \in Goroutines : logsRead(c)) /\ UNCHANGED <<streamVars, corrVars, logVars, updVars>>

NextStream ==
    \/ (\E s \in Stoppers : StopCall(s)) /\ UNCHANGED <<adapterVars, running, corrVars, logVars, updVars>>
    \/ (\E s \in Stoppers : StopLock(s)) /\ UNCHANGED <<adapterVars, running, corrVars, logVars, updVars>>
    \/ (\E s \in Stoppers : StopSelect(s)) /\ UNCHANGED <<adapterVars, running, corrVars, logVars, updVars>>
    \/ (\E s \in Stoppers : StopCloseStop(s)) /\ UNCHANGED <<adapterVars, running, corrVars, logVars, updVars>>
    \/ (\E s \in Stoppers : StopCloseStream(s)) /\ UNCHANGED <<adapterVars, running, corrVars, logVars, updVars>>
    \/ (\E s \in Stoppers : StopUnlock(s)) /\ UNCHANGED <<adapterVars, running, corrVars, logVars, updVars>>

NextCorr ==
    \/ (AddService) /\ UNCHANGED <<adapterVars, running, streamVars, logVars, updVars>>
    \/ (AddDeployment) /\ UNCHANGED <<adapterVars, running, streamVars, logVars, updVars>>
    \/ (AddPod) /\ UNCHANGED <<adapterVars, running, streamVars, logVars, updVars>>
    \/ (ReadAll) /\ UNCHANGED <<adapterVars, running, streamVars, logVars, updVars>>

NextUpd ==
    \/ (AddService) /\ UNCHANGED <<adapterVars, running, streamVars, logVars, updVars>>
    \/ (AddDeployment) /\ UNCHANGED <<adapterVars, running, streamVars, logVars, updVars>>
    \/ (UpdateCorrelate) /\ UNCHANGED <<adapterVars, running, streamVars, logVars>>
    \/ (UpdatePush) /\ UNCHANGED <<adapterVars, running, streamVars, logVars>>

Spec == Init /\ [][Next]_vars

\* a workload that an earlier run of the adapter left on the control plane
Deployed == [ns |-> "default", name |-> "api", version |-> "v1"]

\* NewRuntime (638-657) against a control plane that may already hold a
\* namespace and a workload
InitVerbs ==
    /\ InitStream /\ InitCorr /\ InitLogs /\ InitUpd
    /\ lock = 0
    /\ namespaces = [isNil |-> TRUE, items |-> <<>>]
    /\ clusterNs \in { {}, {"default"} }
    /\ workloads \in { {} } \cup { {Deployed} : x \in { n \in clusterNs : n = "default" } }
    /\ policies = {}
    /\ secrets = {}
    /\ stack = [c \in Callers |-> <<>>]
    /\ issued = [c \in Callers |-> <<>>]
    /\ ncalls = 0
    /\ envSteps = 0
    /\ running = FALSE

SpecVerbs == InitVerbs /\ [][NextVerbs]_vars

NextLogs ==
    \/ (LogsCall) /\ UNCHANGED <<adapterVars, running, corrVars, updVars>>
    \/ (LogsRead) /\ UNCHANGED <<adapterVars, running, corrVars, updVars>>
    \/ (LogsGo) /\ UNCHANGED <<adapterVars, running, corrVars, updVars>>
    \/ (WorkerSend) /\ UNCHANGED <<adapterVars, running, corrVars, updVars>>
    \/ (WorkerStop) /\ UNCHANGED <<adapterVars, running, corrVars, updVars>>
    \/ (WorkerEnd) /\ UNCHANGED <<adapterVars, running, corrVars, updVars>>
    \/ (ConsumerStop) /\ UNCHANGED <<adapterVars, running, corrVars, updVars>>
    \/ (ConsumerSeesClose) /\ UNCHANGED <<adapterVars, running, corrVars, updVars>>
    \/ (StopStep) /\ UNCHANGED <<adapterVars, running, corrVars, logVars, updVars>>

\* the Go scheduler runs every goroutine that can take a step; the consumer
\* is free never to call Stop
LogsFairness ==
    /\ WF_<<logVars, streamVars>>(LogsCall)
    /\ WF_<<logVars, streamVars>>(LogsRead)
    /\ WF_<<logVars, streamVars>>(LogsGo)
    /\ WF_<<logVars, streamVars>>(WorkerSend)
    /\ WF_<<logVars, streamVars>>(WorkerStop)
    /\ WF_<<logVars, streamVars>>(WorkerEnd)
    /\ WF_<<logVars, streamVars>>(ConsumerSeesClose)
    /\ WF_<<logVars, streamVars>>(StopStep /\ UNCHANGED logVars)

SpecLogs == Init /\ [][NextLogs]_vars /\ LogsFairness

SpecStream == Init /\ [][NextStream]_vars

SpecCorr == Init /\ [][NextCorr]_vars

SpecUpd == Init /\ [][NextUpd]_vars

TypeOK ==
    /\ lock \in 0..NumCallers
    /\ \A c \in Callers : Len(stack[c]) <= 2

\* ========================================================================
\* Properties of the adapter
\* ========================================================================
Idx(c) == 1..Len(issued[c])

\* the top-level call of caller c is op on a well-formed resource of kind
\* and is past its k.Lock()
InCall(c, op, kind) ==
    /\ stack[c] # <<>>
    /\ stack[c][1].op = op /\ stack[c][1].kind = kind /\ stack[c][1].valid
    /\ stack[c][1].pc # "lock"

IsCreateOf(e, kind) == e.verb = "Create" /\ e.kind = kind

\* a Create of a Service for which namespaceExists answered "no"
UnknownNamespaceCreate(c) ==
    /\ InCall(c, "Create", "Service")
    /\ NeedsNamespaceCheck(stack[c][1].ns)
    /\ \/ stack[c][1].acNsErr # "none"
       \/ stack[c][1].pc = "autoCreateNamespace"

\* C1: a Create of a Service into a non-default namespace not known to
\* exist issues the workload create only after the namespace create went
\* through and exactly one policy "ingress" labelled owner=micro was created
\* in that namespace, and never issues more than one ingress policy create.
C1_WorkloadAfterNamespaceAndPolicy ==
    \A c \in Callers :
        UnknownNamespaceCreate(c) =>
            LET ns == SerializeResourceName(stack[c][1].ns)
                polAll == { j \in Idx(c) : /\ IsCreateOf(issued[c][j], "networkpolicy")
                                           /\ issued[c][j].name = "ingress" }
            IN /\ Cardinality(polAll) <= 1
               /\ \A i \in Idx(c) :
                    IsCreateOf(issued[c][i], "workload") =>
                      /\ \E j \in 1..(i-1) :
                            /\ IsCreateOf(issued[c][j], "namespace")
                            /\ issued[c][j].name = ns
                            /\ issued[c][j].res \in {Nil, ErrAlreadyExists}
                      /\ Cardinality({ j \in polAll : /\ j < i
                                                      /\ issued[c][j].ns = ns
                                                      /\ issued[c][j].res = Nil }) = 1

\* past k.Lock() and before the deferred k.Unlock() of the top-level call
InsideLock(c) ==
    /\ stack[c] # <<>>
    /\ stack[c][1].op \in {"Create", "Read", "Delete", "Start", "Stop"}
    /\ stack[c][1].pc # "lock"

TouchesCache(c) == At(c, "namespaceExists") \/ At(c, "autoCreateNamespace")

\* C5: at most one Create, Read or Delete call is between k.Lock() and
\* k.Unlock() at any time, it is the holder of the lock, and only the
\* holder reads or writes the namespace cache.
C5_MutualExclusion ==
    /\ \A c, d \in Callers : (InsideLock(c) /\ InsideLock(d)) => c = d
    /\ \A c \in Callers : InsideLock(c) => lock = c
    /\ \A c \in Callers : TouchesCache(c) => lock = c

C5_Witness ==
    \E c, d \in Callers :
        /\ c # d
        /\ At(c, "autoCreateNamespace") /\ lock = c
        /\ At(d, "lock")

Frames(c) == { stack[c][i] : i \in 1..Len(stack[c]) }

DefaultCreate(c) ==
    /\ InCall(c, "Create", "Service")
    /\ SerializeResourceName(stack[c][1].ns) = "default"

NamespacePathCall(e) ==
    \/ e.kind = "namespace"
    \/ IsCreateOf(e, "networkpolicy")

\* C7: a Create of a Service whose sanitized namespace is "default" issues
\* no namespace list, no namespace create and no network policy create, and
\* every step taken while it runs leaves the namespace cache as it was.
C7_DefaultBypassesNamespacePath ==
    [][ \A c \in Callers :
          /\ (DefaultCreate(c) \/ DefaultCreate(c)') => namespaces' = namespaces
          /\ DefaultCreate(c)' =>
                \A i \in 1..Len(issued'[c]) : ~NamespacePathCall(issued'[c][i]) ]_vars

C7_Witness ==
    \E c \in Callers :
        /\ DefaultCreate(c)
        /\ stack[c][1].ns = "Default"
        /\ stack[c][1].pc = "return"
        /\ \E i \in Idx(c) : IsCreateOf(issued[c][i], "workload")
        /\ ~namespaces.isNil /\ ~InSeq(namespaces.items, "default")

\* the bytes a base64 text stands for; 64 is the pad '='
RECURSIVE DecodeString(_)
DecodeString(t) ==
    IF Len(t) < 4 THEN <<>>
    ELSE LET b1 == t[1] * 4 + (t[2] \div 16)
             b2 == (t[2] % 16) * 16 + (t[3] \div 4)
             b3 == (t[3] % 4) * 64 + t[4]
         IN IF t[3] = 64 THEN <<b1>>
            ELSE IF t[4] = 64 THEN <<b1, b2>>
            ELSE <<b1, b2, b3>> \o DecodeString(SubSeq(t, 5, Len(t)))

SecretHolds(s, sec) ==
    /\ s.type = "Opaque"
    /\ { d[1] : d \in s.data } = { kv[1] : kv \in sec }
    /\ \A d \in s.data : \E kv \in sec :
          /\ kv[1] = d[1]
          /\ DecodeString(d[2]) = kv[2]
          /\ (kv[2] = <<115>>) => d[2] = <<28, 48, 64, 64>>

C8_After(c) ==
    InCall(c, "Create", "Service") =>
        LET f == stack[c][1]
            ns == SerializeResourceName(f.ns)
            secAll == { j \in Idx(c) : IsCreateOf(issued[c][j], "secret") }
        IN /\ f.secrets = {} => secAll = {}
           /\ \A j \in secAll :
                /\ issued[c][j].ns = ns
                /\ issued[c][j].name = "api-v1-credentials"
                /\ \A i \in 1..(j-1) : issued[c][i].kind = "namespace"
                /\ \A i \in Idx(c) : issued[c][i].kind = "namespace" => i < j
                /\ issued[c][j].res # Nil =>
                      /\ j = Len(issued[c])
                      /\ f.pc = "return" /\ f.err = issued[c][j].res
           /\ \A i \in Idx(c) :
                /\ issued[c][i].verb # "Delete"
                /\ (IsCreateOf(issued[c][i], "workload") /\ f.secrets # {}) =>
                      \E j \in secAll : j < i /\ issued[c][j].res = Nil

C8_Step(c) ==
    (InCall(c, "Create", "Service") /\ At(c, "createCredentials")
        /\ issued'[c] # issued[c]) =>
        LET f == stack[c][1]
            e == issued'[c][Len(issued'[c])]
        IN /\ clusterNs' = clusterNs /\ namespaces' = namespaces
           /\ e.res = Nil =>
                \E s \in secrets' :
                    /\ s.ns = e.ns /\ s.name = e.name
                    /\ SecretHolds(s, f.secrets)
           /\ e.res # Nil => secrets' = secrets

\* C8: with secrets, Create of a Service creates the opaque secret
\* <name>-<version>-credentials (sanitized) holding the base64 text of every
\* value, in the target namespace, after the namespace calls and before the
\* workload create; the workload create needs the secret create to have
\* succeeded; a failed secret create ends Create with that error and undoes
\* nothing; without secrets no secret create is issued.
C8_CredentialsBeforeWorkload ==
    [][ \A c \in Callers : C8_After(c)' /\ C8_Step(c) ]_vars

C8_Witness ==
    \E c \in Callers :
        /\ InCall(c, "Create", "Service")
        /\ stack[c][1].pc = "return" /\ stack[c][1].err = Nil
        /\ stack[c][1].name = "Api"
        /\ Len(issued[c]) = 4
        /\ IsCreateOf(issued[c][2], "namespace") /\ issued[c][2].res = Nil
        /\ IsCreateOf(issued[c][3], "secret") /\ issued[c][3].res = Nil
        /\ IsCreateOf(issued[c][4], "workload")
        /\ \E s \in secrets : s.ns = "ns1" /\ s.name = "api-v1-credentials"

\* C10: Delete of a Service issues the delete of the credentials secret and
\* then the stop of the workload, and returns ErrNotFound exactly when the
\* stop reported api.ErrNotFound, any other stop error as it is, and nil
\* otherwise, whatever the secret delete reported.
C10_DeleteResultFromStop ==
    \A c \in Callers :
        InCall(c, "Delete", "Service") =>
            LET f == stack[c][1]
                n == Len(issued[c])
            IN /\ n <= 2
               /\ n >= 1 => /\ issued[c][1].verb = "Delete"
                            /\ issued[c][1].kind = "secret"
                            /\ issued[c][1].name = "api-v1-credentials"
               /\ n = 2 => /\ issued[c][2].verb = "Delete"
                           /\ issued[c][2].kind = "workload"
                           /\ f.pc = "return"
               /\ f.pc = "return" =>
                    /\ n = 2
                    /\ (f.err = ErrNotFound) <=> (issued[c][2].res = ApiErrNotFound)
                    /\ issued[c][2].res = ErrUpstream => f.err = ErrUpstream
                    /\ issued[c][2].res = Nil => f.err = Nil

C10_Witness ==
    \E c \in Callers :
        /\ InCall(c, "Delete", "Service")
        /\ stack[c][1].pc = "return"
        /\ issued[c][1].res = ErrUpstream
        /\ issued[c][2].res = Nil
        /\ stack[c][1].err = Nil

\* ========================================================================
\* Properties of kubeStream
\* ========================================================================
\* C2: whatever the number of Stop calls and their interleaving, the stop
\* channel and the record channel are closed once each, no Stop panics and
\* every Stop returns nil.
C2_StopIdempotent ==
    /\ ~panicked
    /\ stopClosed <= 1 /\ streamClosed <= 1
    /\ \A s \in Stoppers :
          /\ sret[s] \in {"none", Nil}
          /\ (sdone[s] > 0 /\ spc[s] = "idle") => sret[s] = Nil
          /\ sdone[s] > 0 => (stopClosed = 1 /\ streamClosed = 1)

C2_Witness ==
    /\ \A s \in Stoppers : sdone[s] = MaxStops /\ spc[s] = "idle" /\ sret[s] = Nil
    /\ stopClosed = 1 /\ streamClosed = 1
    /\ ~panicked

\* ========================================================================
\* Properties of the correlator
\* ========================================================================
\* the LogicalServices of a result, by name, version and status
View(m) == { <<m[k].name, m[k].version, m[k].status>> : k \in DOMAIN m }

\* C3: every permutation of the Service, Deployment and Pod lists gives the
\* same set of LogicalServices by (name, version, status).
C3_OrderIndependent ==
    queried =>
        \A ps \in Perms(serviceList), pd \in Perms(depList), pp \in Perms(podList) :
            View(getService(ps, pd, pp)) = View(svcMap)

PodStatus(p) ==
    IF p.containers[1] = "waiting" THEN Starting ELSE transformStatus(p.phase)

Managed(k) ==
    { i \in 1..Len(depList) :
        /\ Key(depList[i].name, depList[i].version) = k
        /\ HasAnnotation(depList[i].annotations, "name") }

MatchingPods(i) ==
    { j \in 1..Len(podList) :
        /\ podList[j].name = depList[i].name
        /\ podList[j].version = depList[i].version }

WithContainer(i) == { j \in MatchingPods(i) : Len(podList[j].containers) > 0 }

DeploymentStatus(i) ==
    IF Len(depList[i].conditions) > 0
    THEN transformStatus(depList[i].conditions[1]) ELSE Unknown

\* C4: a LogicalService with a managed deployment and a pod that matches
\* the deployment's labels and reports a container status ends with the
\* status of such a pod; when the matching pods report no container status
\* it keeps the deployment-derived status.
C4_PodStatusWins ==
    queried =>
        \A k \in DOMAIN svcMap :
            LET withPod == { i \in Managed(k) : WithContainer(i) # {} }
            IN /\ withPod # {} =>
                    svcMap[k].status \in
                        { PodStatus(podList[j]) :
                            j \in UNION { WithContainer(i) : i \in withPod } }
               /\ (Managed(k) # {} /\ withPod = {}) =>
                    svcMap[k].status \in { DeploymentStatus(i) : i \in Managed(k) }

LabelPairs == { <<serviceList[i].name, serviceList[i].version>> :
                    i \in 1..Len(serviceList) }

\* C9: a Read without filters returns one LogicalService for every distinct
\* (name, version) label pair among the Service objects.
C9_OneServicePerLabelPair ==
    queried => Cardinality(DOMAIN svcMap) = Cardinality(LabelPairs)

\* ========================================================================
\* Properties of the seven methods together
\* ========================================================================
Verbs == {"Create", "Update", "Delete", "Logs"}

\* the top-level call of caller c has read its resource argument
Decided(c) == stack[c] # <<>> /\ stack[c][1].kind # "?"

\* a kind outside Namespace, NetworkPolicy and Service, or a value that is
\* not of the shape its kind announces
BadResource(c) ==
    /\ Decided(c)
    /\ stack[c][1].op \in Verbs
    /\ \/ stack[c][1].kind \notin {"Namespace", "NetworkPolicy", "Service"}
       \/ ~stack[c][1].valid

\* the call stands at its return with ErrInvalidResource and has issued
\* nothing
Rejected(c) ==
    /\ Len(stack[c]) = 1
    /\ stack[c][1].pc = "return"
    /\ stack[c][1].err = ErrInvalidResource
    /\ issued[c] = <<>>

\* the kinds a verb does not support and answers before looking at the value
Unsupported(c) ==
    \/ stack[c][1].op = "Update" /\ stack[c][1].kind = "Namespace"
    \/ stack[c][1].op = "Logs" /\ stack[c][1].kind \in {"Namespace", "NetworkPolicy"}

\* C11 as stated: for a resource of an unknown kind or one that fails the
\* downcast, each of Create, Update, Delete and Logs returns
\* ErrInvalidResource, issues no control-plane call and leaves the cache
\* unchanged, and Create and Delete release the lock.
C11_InvalidResourceRejected ==
    [][ \A c \in Callers :
          stack'[c] # stack[c] =>
            /\ BadResource(c)' => (Rejected(c)' /\ namespaces' = namespaces)
            /\ BadResource(c) =>
                 /\ namespaces' = namespaces
                 /\ stack[c][1].op \in {"Create", "Delete"} => lock' = 0 ]_vars

\* C11: for a resource of an unknown kind, and for one that fails the
\* downcast in a branch that makes the downcast (every kind in Create and
\* Delete, NetworkPolicy and Service in Update, Service in Logs), the verb
\* returns ErrInvalidResource, issues no control-plane call and leaves the
\* cache unchanged, and Create and Delete release the lock; Update of a
\* Namespace and Logs of a Namespace or NetworkPolicy return nil whatever
\* the value, again without a call and without touching the cache.
C11_InvalidResourceRejectedWhereChecked ==
    [][ \A c \in Callers :
          stack'[c] # stack[c] =>
            /\ (BadResource(c)' /\ ~Unsupported(c)') =>
                 (Rejected(c)' /\ namespaces' = namespaces)
            /\ (BadResource(c)' /\ Unsupported(c)') =>
                 /\ stack'[c][1].pc = "return" /\ stack'[c][1].err = Nil
                 /\ issued'[c] = <<>>
                 /\ namespaces' = namespaces
            /\ BadResource(c) =>
                 /\ namespaces' = namespaces
                 /\ stack[c][1].op \in {"Create", "Delete"} => lock' = 0 ]_vars

C11_Witness ==
    \E c, d \in Callers :
        /\ c # d
        /\ BadResource(c) /\ Rejected(c)
        /\ stack[c][1].op = "Update" /\ stack[c][1].kind = "Service"
        /\ BadResource(d) /\ Rejected(d)
        /\ stack[d][1].op = "Create" /\ lock = d

\* caller c stands at a k.Lock() that only its own return could release
WaitsForItself(c) ==
    /\ stack[c] # <<>>
    /\ Top(c).pc = "lock"
    /\ lock = c

\* C12: every Create, Read and Delete call terminates and releases the lock
\* when its control-plane calls return; in particular no call ever waits for
\* a lock that its own goroutine holds, a wait that no step can end.
C12_CallsTerminate == \A c \in Callers : ~WaitsForItself(c)

Cached == { namespaces.items[i] : i \in 1..Len(namespaces.items) }

\* the step is the population of the empty cache by namespaceExists
PopulatedByList ==
    /\ namespaces.isNil
    /\ \E c \in Callers :
         /\ At(c, "namespaceExists")
         /\ Len(issued'[c]) = Len(issued[c]) + 1
         /\ LET e == issued'[c][Len(issued'[c])]
            IN e.verb = "List" /\ e.kind = "namespace" /\ e.res = Nil

\* the step is the append of autoCreateNamespace after a namespace create
\* that succeeded or was answered "already exists"
AppendedByAutoCreate ==
    /\ ~namespaces.isNil
    /\ \E c \in Callers :
         /\ At(c, "autoCreateNamespace")
         /\ Len(issued'[c]) = Len(issued[c]) + 1
         /\ LET e == issued'[c][Len(issued'[c])]
            IN /\ IsCreateOf(e, "namespace")
               /\ e.res \in {Nil, ErrAlreadyExists}
               /\ namespaces'.items = Append(namespaces.items, e.name)

\* C16: once populated the cache stays populated and keeps every name it
\* holds, whatever method runs and whatever happens to the namespaces on the
\* control plane; it changes only by the initial list of namespaceExists and
\* by the append of a successful auto-creation.
C16_CacheGrowsMonotonically ==
    [][ /\ ~namespaces.isNil =>
             /\ ~namespaces'.isNil
             /\ Len(namespaces'.items) >= Len(namespaces.items)
             /\ SubSeq(namespaces'.items, 1, Len(namespaces.items)) = namespaces.items
        /\ namespaces' # namespaces => (PopulatedByList \/ AppendedByAutoCreate) ]_vars

C16_Witness ==
    /\ ~namespaces.isNil
    /\ "ns1" \in Cached
    /\ "ns1" \notin clusterNs
    /\ \E c \in Callers : stack[c] # <<>> /\ stack[c][1].op = "Update"
                          /\ stack[c][1].pc = "getService"

\* the namespace list that caller c issues in this step, if any
ListIssued(c, res) ==
    /\ Len(issued'[c]) = Len(issued[c]) + 1
    /\ LET e == issued'[c][Len(issued'[c])]
       IN e.verb = "List" /\ e.kind = "namespace" /\ e.res = res

FailedExistenceCheck(c) ==
    \E i \in Idx(c) : /\ issued[c][i].verb = "List"
                      /\ issued[c][i].kind = "namespace"
                      /\ issued[c][i].res # Nil

\* C17: namespaceExists populates the cache with one namespace list: a
\* failed list is returned as the error of Create and leaves the cache
\* unpopulated, a list that succeeded leaves the cache populated, a
\* populated cache is never listed again, and a Create whose existence
\* check failed issues no create of any kind.
C17_OneListPopulatesTheCache ==
    [][ \A c \in Callers :
          /\ (At(c, "namespaceExists") /\ stack'[c] # stack[c]) =>
               /\ ListIssued(c, ErrUpstream) =>
                    /\ namespaces'.isNil
                    /\ Top(c)'.pc = "return" /\ Top(c)'.err = ErrUpstream
               /\ ListIssued(c, Nil) => ~namespaces'.isNil
               /\ ~namespaces.isNil => issued'[c] = issued[c]
               /\ namespaces.isNil => (ListIssued(c, ErrUpstream) \/ ListIssued(c, Nil))
          /\ FailedExistenceCheck(c)' =>
               \A i \in 1..Len(issued'[c]) : issued'[c][i].verb # "Create" ]_vars

UpdateCall(c) == stack[c] # <<>> /\ stack[c][1].op = "Update"

\* C20: Update does not take the adapter lock: an Update call never stands
\* at k.Lock(), never holds the lock, and can take its next step whoever
\* holds the lock.
C20_UpdateTakesNoLock ==
    \A c \in Callers :
        UpdateCall(c) =>
            /\ stack[c][1].pc # "lock"
            /\ lock # c
            /\ ENABLED (\/ Begin(c) \/ getServiceGet(c) \/ serviceUpdate(c)
                        \/ updateNetworkPolicy(c) \/ Return(c))

\* an Update between its correlation and its push while another caller is
\* inside Create, Read or Delete with the lock
C20_Witness ==
    \E c, d \in Callers :
        /\ UpdateCall(c) /\ stack[c][1].pc = "serviceUpdate"
        /\ d # c /\ lock = d /\ InsideLock(d)
        /\ stack[d][1].op \in {"Create", "Read", "Delete"}

\* two Updates of the same service, one between its correlation and its
\* push, the other inside its correlation
TwoUpdatesInterleave ==
    \E c, d \in Callers :
        /\ c # d
        /\ UpdateCall(c) /\ stack[c][1].pc = "serviceUpdate"
        /\ UpdateCall(d) /\ stack[d][1].pc = "getService" /\ stack[d][1].step > 0
        /\ stack[c][1].name = stack[d][1].name /\ stack[c][1].ns = stack[d][1].ns

\* ========================================================================
\* Properties of Logs
\* ========================================================================
\* C13: the worker of a non-streaming Logs never sends a record on the
\* record channel after the channel was closed, whenever the consumer calls
\* Stop.
C13_NoSendOnClosedChannel == ~sendOnClosed

IsPrefix(a, b) == Len(a) <= Len(b) /\ SubSeq(b, 1, Len(a)) = a

ConsumerCalledStop == spc[Consumer] # "idle" \/ sdone[Consumer] > 0

Delivered ==
    /\ IsPrefix(received, records)
    /\ eos => received = records
    /\ lerr = ErrUpstream =>
         /\ wpc = "none"
         /\ received = <<>> /\ ~eos
         /\ streamClosed = 0 /\ stopClosed = 0
    /\ wpc # "none" => lerr = Nil

\* C18: when the read of the history succeeded, a consumer that keeps
\* receiving and never calls Stop receives the records in order, each once,
\* and then sees the end of the stream; when the read failed Logs returns
\* the error, there is no stream and no worker.
C18_HistoryDeliveredThenEnd ==
    /\ []Delivered
    /\ <>(\/ ConsumerCalledStop
          \/ lerr = ErrUpstream
          \/ (lerr = Nil /\ received = records /\ eos))

C18_Witness ==
    /\ lerr = Nil
    /\ Len(records) = MaxRecords
    /\ received = records
    /\ eos
    /\ wpc = "done"
    /\ ~ConsumerCalledStop

\* ========================================================================
\* Properties of Update
\* ========================================================================
\* the deployment of a sub-update as the control plane listed it
ListedFor(p) == Select(depList, ulabels)[p.listed]

\* C14: the deployment that Update pushes for a matched LogicalService is
\* the deployment as listed, changed only by the merge of the incoming
\* metadata and the "updated" stamp; it still carries the name, version and
\* source annotations it was listed with.
C14_PushedDeploymentKeepsProvenance ==
    \A n \in 1..Len(pushed) :
        LET p == pushed[n]
        IN /\ p.obj.name = ListedFor(p).name
           /\ p.obj.version = ListedFor(p).version
           /\ p.obj.annotations = Merge(ListedFor(p).annotations, Incoming)
           /\ \A k \in Provenance : HasAnnotation(p.obj.annotations, k)
           /\ p.updated

\* C15: every LogicalService that getService hands to Update has its
\* deployment back-reference set, and Update never crashes on a missing one.
C15_DeploymentReferenceSet ==
    /\ upc # "crashed"
    /\ \A k \in DOMAIN svcMap : svcMap[k].kdeploy # 0

SubUpdates == 1..Len(pushed)

UpdateOutcome ==
    /\ \A n \in SubUpdates : n < Len(pushed) => pushed[n].res = Nil
    /\ \A n, k \in SubUpdates : n # k => pushed[n].key # pushed[k].key
    /\ \A n \in SubUpdates : pushed[n].key \in DOMAIN svcMap
    /\ upc = "returned" =>
         /\ uerr = Nil =>
              /\ Len(pushed) = Cardinality(DOMAIN svcMap)
              /\ \A n \in SubUpdates : pushed[n].res = Nil
         /\ uerr # Nil =>
              \/ pushed = <<>> /\ svcMap = <<>> /\ kdeps = <<>>
              \/ pushed # <<>> /\ pushed[Len(pushed)].res = uerr
         /\ (pushed # <<>> /\ pushed[Len(pushed)].res # Nil) =>
              uerr = pushed[Len(pushed)].res

\* C19: Update pushes the matched LogicalServices one at a time; the first
\* failed sub-update ends it with that error, nothing is issued for the
\* remaining matches and nothing that was pushed is taken back; nil is
\* returned only when every sub-update succeeded; a failed correlation is
\* returned with no sub-update issued.
C19_FailsOnFirstFailedSubUpdate ==
    /\ []UpdateOutcome
    /\ [][ /\ IsPrefix(pushed, pushed')
           /\ upc = "returned" => (pushed' = pushed /\ uerr' = uerr) ]_vars

C19_Witness ==
    /\ upc = "returned"
    /\ Cardinality(DOMAIN svcMap) = 2
    /\ Len(pushed) = 2
    /\ pushed[1].res = Nil /\ pushed[2].res = ErrUpstream
    /\ uerr = ErrUpstream

\* the first of two sub-updates failed and the second was not issued
FirstOfTwoFailed ==
    /\ upc = "returned"
    /\ Cardinality(DOMAIN svcMap) = 2
    /\ Len(pushed) = 1 /\ utodo # <<>>
    /\ uerr = ErrUpstream

====
